---- MODULE Spec2Model ----
(***************************************************************************)
(* Model of the semantic-information-theory engine of semiosis             *)
(* (semiosis/sit/engine.py): the SemioticEvaluator, its trust and budget   *)
(* configuration, and the trace of agent states it accumulates; of the     *)
(* stateless functions of semiosis/sit/math_utils.py; and of the context   *)
(* interventions of semiosis/contexts/interventions.py.                    *)
(*                                                                         *)
(* Numbers.  Trust, budget, cost, score and log-probabilities are floats   *)
(* in the program.  Here they are integers counting hundredths (100 is     *)
(* 1.0), so that score * 2.0 and trust * 0.1 are exact on the inputs used. *)
(* A trust threshold is a dyadic rational (an integer part and a sequence  *)
(* of binary fraction digits); the sum low + high of the threshold search  *)
(* is rounded to the 53 significant bits of a double, to nearest, ties to  *)
(* even, and halving is exact.  A viability is a ratio num/den.            *)
(***************************************************************************)
EXTENDS Integers, Sequences, FiniteSets, TLC

(***************************************************************************)
(* Bounds of the model and constants of the program.                       *)
(***************************************************************************)
MaxTrace == 3

MaxInterventions == 2

MaxCalls == 2

Iterations == 50

\* Python floats are IEEE-754 binary64: 53 significant binary digits.
MantissaBits == 53

DefaultMinTrust == 0

DefaultMaxTrust == 10000

DefaultLogprob == -1000

DefaultInitialBudget == 10000

DefaultMinBudget == 0

(***************************************************************************)
(* Dyadic rationals int + SUM frac[i] / Limb^i: an integer part (the       *)
(* floor) and fraction digits in base 2^10, most significant first and     *)
(* without trailing zero digits.                                           *)
(***************************************************************************)
Limb == 2 ^ 10

RECURSIVE DyStrip(_)
DyStrip(limbs) ==
    IF limbs = <<>> THEN <<>>
    ELSE IF limbs[Len(limbs)] = 0 THEN DyStrip(SubSeq(limbs, 1, Len(limbs) - 1))
    ELSE limbs

DyPad(limbs, n) == [i \in 1..n |-> IF i <= Len(limbs) THEN limbs[i] ELSE 0]

DyOfInt(n) == [int |-> n, frac |-> <<>>]

RECURSIVE DyAddFrac(_, _)
DyAddFrac(x, y) ==
    IF x = <<>> THEN [carry |-> 0, limbs |-> <<>>]
    ELSE LET r == DyAddFrac(Tail(x), Tail(y))
             s == Head(x) + Head(y) + r.carry
         IN  [carry |-> s \div Limb, limbs |-> <<s % Limb>> \o r.limbs]

DyAdd(a, b) ==
    LET n == IF Len(a.frac) >= Len(b.frac) THEN Len(a.frac) ELSE Len(b.frac)
        r == DyAddFrac(DyPad(a.frac, n), DyPad(b.frac, n))
    IN  [int |-> a.int + b.int + r.carry, frac |-> DyStrip(r.limbs)]

RECURSIVE DyHalfFrac(_, _)
DyHalfFrac(limbs, carry) ==
    IF limbs = <<>> THEN (IF carry = 1 THEN <<Limb \div 2>> ELSE <<>>)
    ELSE <<(carry * Limb + Head(limbs)) \div 2>> \o DyHalfFrac(Tail(limbs), Head(limbs) % 2)

DyHalf(a) == [int |-> a.int \div 2, frac |-> DyStrip(DyHalfFrac(a.frac, a.int % 2))]

\* a / 2^10
DyShift(a) == [int |-> a.int \div Limb, frac |-> DyStrip(<<a.int % Limb>> \o a.frac)]

RECURSIVE DyHalfTimes(_, _)
DyHalfTimes(a, k) ==
    IF k = 0 THEN a
    ELSE IF k >= 10 THEN DyHalfTimes(DyShift(a), k - 10)
    ELSE DyHalfTimes(DyHalf(a), k - 1)

RECURSIVE DyFracLess(_, _)
DyFracLess(x, y) ==
    IF x = <<>> THEN FALSE
    ELSE IF Head(x) # Head(y) THEN Head(x) < Head(y)
    ELSE DyFracLess(Tail(x), Tail(y))

DyLess(a, b) ==
    LET n == IF Len(a.frac) >= Len(b.frac) THEN Len(a.frac) ELSE Len(b.frac)
    IN  \/ a.int < b.int
        \/ a.int = b.int /\ DyFracLess(DyPad(a.frac, n), DyPad(b.frac, n))

DyLeq(a, b) == ~DyLess(b, a)

DyNeg(a) ==
    IF a.frac = <<>> THEN [int |-> -a.int, frac |-> <<>>]
    ELSE [int |-> -a.int - 1,
          frac |-> [i \in 1..Len(a.frac) |->
                      IF i = Len(a.frac) THEN Limb - a.frac[i] ELSE Limb - 1 - a.frac[i]]]

\* 2^-k
DyUlpAt(k) ==
    IF k = 0 THEN DyOfInt(1)
    ELSE LET n == (k - 1) \div 10 + 1
         IN  [int |-> 0, frac |-> [i \in 1..n |-> IF i = n THEN 2 ^ (9 - ((k - 1) % 10)) ELSE 0]]

RECURSIVE BitLen(_)
BitLen(n) == IF n = 0 THEN 0 ELSE 1 + BitLen(n \div 2)

\* The number of zero bits between the binary point and the first one bit.
RECURSIVE LeadingZeroBits(_)
LeadingZeroBits(limbs) ==
    IF limbs = <<>> THEN 0
    ELSE IF Head(limbs) = 0 THEN 10 + LeadingZeroBits(Tail(limbs))
    ELSE 10 - BitLen(Head(limbs))

\* Rounding of a non-negative value to MantissaBits significant bits, to
\* nearest, ties to even: `keep` fraction bits stay.
RoundMagnitude(a) ==
    LET keep == IF a.int > 0 THEN MantissaBits - BitLen(a.int)
                ELSE LeadingZeroBits(a.frac) + MantissaBits
        c == keep \div 10 + 1
        r == keep % 10
        w == 2 ^ (10 - r)
    IN  IF Len(a.frac) < c THEN a
        ELSE LET L     == a.frac[c]
                 rem   == L % w
                 half  == w \div 2
                 lower == \E i \in (c + 1)..Len(a.frac) : a.frac[i] # 0
                 kept  == [int |-> a.int,
                           frac |-> DyStrip(SubSeq(a.frac, 1, c - 1) \o <<L - rem>>)]
                 above == rem > half \/ (rem = half /\ lower)
                 tie   == rem = half /\ ~lower
                 odd   == IF r > 0 THEN (L \div w) % 2 = 1
                          ELSE IF c > 1 THEN a.frac[c - 1] % 2 = 1
                          ELSE a.int % 2 = 1
             IN  IF above \/ (tie /\ odd) THEN DyAdd(kept, DyUlpAt(keep)) ELSE kept

\* The double nearest to a (no overflow or underflow at these magnitudes).
RoundDouble(a) == IF a.int < 0 THEN DyNeg(RoundMagnitude(DyNeg(a))) ELSE RoundMagnitude(a)

FloatAdd(a, b) == RoundDouble(DyAdd(a, b))

(***************************************************************************)
(* Ratios num/den with den > 0: the value of len(viable) / len(states).    *)
(***************************************************************************)
Ratio(n, d) == [num |-> n, den |-> d]

RatioZero == Ratio(0, 1)

RatioHalf(r) == Ratio(r.num, 2 * r.den)

RatioLeq(a, b) == a.num * b.den <= b.num * a.den

RatioEq(a, b) == a.num * b.den = b.num * a.den

(***************************************************************************)
(* Python values: None or a float, and truthiness as `or` uses it.         *)
(***************************************************************************)
None == [is_none |-> TRUE, v |-> 0]

Some(x) == [is_none |-> FALSE, v |-> x]

Truthy(x) == ~x.is_none /\ x.v # 0

Max(a, b) == IF a >= b THEN a ELSE b

Min(a, b) == IF a <= b THEN a ELSE b

RECURSIVE SeqMax(_)
SeqMax(s) == IF Len(s) = 1 THEN s[1] ELSE Max(s[1], SeqMax(Tail(s)))

(***************************************************************************)
(* Configuration records and the records the engine consumes.              *)
(***************************************************************************)
TrustConfig(lo, hi) == [min_trust |-> lo, max_trust |-> hi, default_logprob |-> DefaultLogprob]

BudgetConfig(f, lo) ==
    [update_function |-> f, initial_budget |-> DefaultInitialBudget, min_budget |-> lo]

AgentState(t, c, b) == [trust |-> t, cost |-> c, budget |-> b]

\* The configurations an evaluator is constructed with: the defaults, and a
\* custom pair (trust bounds below zero, another default log-probability, a
\* raised budget floor, another update rule).
Configurations ==
    {<<TrustConfig(DefaultMinTrust, DefaultMaxTrust), BudgetConfig("default", DefaultMinBudget)>>,
     <<[TrustConfig(-100, 100) EXCEPT !.default_logprob = -200],
       BudgetConfig("no_replenish", 1)>>}

TrustValues == {-40, 60, 100}

BudgetValues == {1, 5}

CostValues == {3}

AgentStates == {AgentState(t, c, b) : t \in TrustValues, c \in CostValues, b \in BudgetValues}

\* An evaluation outcome as the engine sees it: the attributes the object has,
\* the boolean it carries (in `success` or in `correct`) and its score.
EvaluationResult(success, score) ==
    [attrs |-> {"success", "score", "details", "error", "metadata"},
     flag |-> success, score |-> score]

\* An outcome object that exposes the attribute update_trust reads.
CorrectnessResult(correct, score) ==
    [attrs |-> {"correct", "score"}, flag |-> correct, score |-> score]

Returned(kind, v) ==
    CASE kind = "float"  -> [kind |-> "float", float |-> v]
      [] kind = "ratio"  -> [kind |-> "ratio", ratio |-> v]
      [] kind = "dyadic" -> [kind |-> "dyadic", dyadic |-> v]
      [] kind = "dict"   -> [kind |-> "dict", dict |-> v]

ReturnedNone == [kind |-> "none"]

Raised(exc) == [kind |-> "raise", exc |-> exc]

Pending == [kind |-> "pending"]

\* The evaluator (trust_config, budget_config, agent_states), the call being
\* made and its result, the locals of calculate_semantic_threshold with a count
\* of the viability scans it has made, and the context providers in existence.
\* agent_state is the state a workflow carries from one task to the next;
\* runner is an EvaluationRunner, run the position and locals of its
\* run_evaluation, and collaborators what the runner's environment and
\* interventions have been asked to do.
VARIABLES trust_config, budget_config, agent_states, call, ret,
          pc, low, high, target_viability, iteration, viability_scans,
          providers, agent_state, runner, run, collaborators

vars == <<trust_config, budget_config, agent_states, call, ret,
          pc, low, high, target_viability, iteration, viability_scans,
          providers, agent_state, runner, run, collaborators>>

evaluation == <<agent_state, runner, run, collaborators>>

config == <<trust_config, budget_config>>

locals == <<pc, low, high, target_viability, iteration, viability_scans>>

(***************************************************************************)
(* SemioticEvaluator.calculate_viability                                   *)
(***************************************************************************)
\* Variant: the trust comparison is the other way round.
Viable_TrustBelow(states, trust_threshold, budget_thresh) ==
    {i \in 1..Len(states) :
        /\ DyLess(DyOfInt(states[i].trust), trust_threshold)
        /\ states[i].budget > budget_thresh}

\* Variant: the budget comparison is not strict.
Viable_NonStrictBudget(states, trust_threshold, budget_thresh) ==
    {i \in 1..Len(states) :
        /\ DyLess(trust_threshold, DyOfInt(states[i].trust))
        /\ states[i].budget >= budget_thresh}

\* Variant: the count stops at the first state that is not viable.
Viable_Prefix(states, trust_threshold, budget_thresh) ==
    {i \in 1..Len(states) :
        \A j \in 1..i :
            /\ DyLess(trust_threshold, DyOfInt(states[j].trust))
            /\ states[j].budget > budget_thresh}

Viable(states, trust_threshold, budget_thresh) ==
    {i \in 1..Len(states) :
        /\ DyLess(trust_threshold, DyOfInt(states[i].trust))
        /\ states[i].budget > budget_thresh}

\* Variant: without a budget_threshold the budget is compared with 0.
calculate_viability_ZeroFloor(states, bcfg, trust_threshold, budget_threshold) ==
    IF states = <<>> THEN RatioZero
    ELSE LET budget_thresh ==
                 IF Truthy(budget_threshold) THEN budget_threshold.v ELSE 0
         IN  Ratio(Cardinality(Viable(states, trust_threshold, budget_thresh)), Len(states))

calculate_viability(states, bcfg, trust_threshold, budget_threshold) ==
    IF states = <<>> THEN RatioZero
    ELSE LET budget_thresh ==
                 IF Truthy(budget_threshold) THEN budget_threshold.v ELSE bcfg.min_budget
         IN  Ratio(Cardinality(Viable(states, trust_threshold, budget_thresh)), Len(states))

(***************************************************************************)
(* SemioticEvaluator.update_trust and update_budget                        *)
(***************************************************************************)
\* Variant: only the lower bound is applied.
clamp_trust_NoUpper(tcfg, new_trust) == Max(tcfg.min_trust, new_trust)

clamp_trust(tcfg, new_trust) == Max(tcfg.min_trust, Min(new_trust, tcfg.max_trust))

\* Variant: the penalty is proportional to the score, like the reward.
update_trust_ScaledPenalty(tcfg, current_trust, evaluation_result) ==
    IF "correct" \notin evaluation_result.attrs THEN Raised("AttributeError")
    ELSE LET trust_delta ==
                 IF evaluation_result.flag THEN evaluation_result.score * 2
                 ELSE -evaluation_result.score
             new_trust == current_trust + trust_delta
         IN  Returned("float", Max(tcfg.min_trust, Min(new_trust, tcfg.max_trust)))

update_trust(tcfg, current_trust, evaluation_result) ==
    IF "correct" \notin evaluation_result.attrs THEN Raised("AttributeError")
    ELSE LET trust_delta ==
                 IF evaluation_result.flag THEN evaluation_result.score * 2 ELSE -100
             new_trust == current_trust + trust_delta
         IN  Returned("float", clamp_trust(tcfg, new_trust))

\* The pluggable budget_config.update_function; "default" is the lambda of
\* BudgetConfig.__post_init__ (trust * 0.1 is exact on multiples of 0.1).
budget_update_function(f, budget, cost, trust) ==
    CASE f = "default"      -> budget - cost + (trust \div 10)
      [] f = "no_replenish" -> budget - cost

\* Variant: the budget is also clamped above, at the initial budget.
update_budget_UpperClamp(bcfg, current_budget, cost, trust) ==
    LET new_budget == budget_update_function(bcfg.update_function, current_budget, cost, trust)
    IN  Min(bcfg.initial_budget, Max(bcfg.min_budget, new_budget))

update_budget(bcfg, current_budget, cost, trust) ==
    LET new_budget == budget_update_function(bcfg.update_function, current_budget, cost, trust)
    IN  Max(bcfg.min_budget, new_budget)

(***************************************************************************)
(* SemioticEvaluator.calculate_log_likelihood                              *)
(***************************************************************************)
RECURSIVE SplitFrom(_, _, _)
SplitFrom(s, cur, out) ==
    IF s = <<>> THEN (IF cur = <<>> THEN out ELSE Append(out, cur))
    ELSE IF Head(s) = " "
         THEN SplitFrom(Tail(s), <<>>, IF cur = <<>> THEN out ELSE Append(out, cur))
         ELSE SplitFrom(Tail(s), Append(cur, Head(s)), out)

\* str.split() without arguments: the maximal runs of non-whitespace.
split(s) == SplitFrom(s, <<>>, <<>>)

\* Variant: a token missing from the map contributes nothing.
RECURSIVE SumLogprobs_SkipMissing(_, _, _)
SumLogprobs_SkipMissing(tokens, token_probs, default_logprob) ==
    IF tokens = <<>> THEN 0
    ELSE (IF Head(tokens) \in DOMAIN token_probs
          THEN token_probs[Head(tokens)] ELSE 0)
         + SumLogprobs_SkipMissing(Tail(tokens), token_probs, default_logprob)

RECURSIVE SumLogprobs(_, _, _)
SumLogprobs(tokens, token_probs, default_logprob) ==
    IF tokens = <<>> THEN 0
    ELSE (IF Head(tokens) \in DOMAIN token_probs
          THEN token_probs[Head(tokens)] ELSE default_logprob)
         + SumLogprobs(Tail(tokens), token_probs, default_logprob)

\* Variant: a missing token counts -10.0 whatever the configuration says.
calculate_log_likelihood_FixedDefault(tcfg, token_probs, target_sequence) ==
    SumLogprobs(split(target_sequence), token_probs, DefaultLogprob)

calculate_log_likelihood(tcfg, token_probs, target_sequence) ==
    SumLogprobs(split(target_sequence), token_probs, tcfg.default_logprob)

(***************************************************************************)
(* SemioticEvaluator.get_performance_trajectory                            *)
(***************************************************************************)
\* Variant: the most recent state comes first.
get_performance_trajectory_NewestFirst(states) ==
    IF states = <<>> THEN [trust |-> <<>>, budget |-> <<>>, cost |-> <<>>]
    ELSE [trust  |-> [i \in 1..Len(states) |-> states[Len(states) + 1 - i].trust],
          budget |-> [i \in 1..Len(states) |-> states[Len(states) + 1 - i].budget],
          cost   |-> [i \in 1..Len(states) |-> states[Len(states) + 1 - i].cost]]

get_performance_trajectory(states) ==
    IF states = <<>> THEN [trust |-> <<>>, budget |-> <<>>, cost |-> <<>>]
    ELSE [trust  |-> [i \in 1..Len(states) |-> states[i].trust],
          budget |-> [i \in 1..Len(states) |-> states[i].budget],
          cost   |-> [i \in 1..Len(states) |-> states[i].cost]]

(***************************************************************************)
(* SemioticEvaluator.calculate_mutual_information and _calculate_entropy.  *)
(* An entropy is kept as the expression that determines it: `zero` when    *)
(* the method returns the literal 0.0, and otherwise the weights |v| > 0   *)
(* (each with the number of times it occurs) whose normalisation p gives   *)
(* -sum(p * log2(p)).                                                      *)
(***************************************************************************)
Abs(x) == IF x < 0 THEN -x ELSE x

RECURSIVE SeqSum(_)
SeqSum(s) == IF s = <<>> THEN 0 ELSE Head(s) + SeqSum(Tail(s))

_calculate_entropy(values) ==
    LET values_array == [i \in 1..Len(values) |-> Abs(values[i])]
        positive     == {values_array[i] : i \in 1..Len(values)} \ {0}
    IN  IF values = <<>> THEN [zero |-> TRUE, weights |-> <<>>]
        ELSE IF SeqSum(values_array) = 0 THEN [zero |-> TRUE, weights |-> <<>>]
        ELSE [zero |-> FALSE,
              weights |-> [w \in positive |->
                             Cardinality({i \in 1..Len(values) : values_array[i] = w})]]

\* environment_states holds, for each environment state e, hash(str(e)) % 1000.
calculate_mutual_information(agent_states_arg, environment_states) ==
    IF Len(agent_states_arg) # Len(environment_states) \/ agent_states_arg = <<>>
    THEN [kind |-> "float", float |-> 0]
    ELSE [kind |-> "entropy_mean",
          agent |-> _calculate_entropy(
                        [i \in 1..Len(agent_states_arg) |-> agent_states_arg[i].trust]),
          env   |-> _calculate_entropy(environment_states)]

\* No workflow and no runner exist.
NoEvaluation ==
    /\ agent_state = None
    /\ runner = None
    /\ run = None
    /\ collaborators = None

(***************************************************************************)
(* Operations of the evaluator.                                            *)
(***************************************************************************)
Init ==
    /\ \E c \in Configurations : trust_config = c[1] /\ budget_config = c[2]
    /\ agent_states = <<>>
    /\ call = [op |-> "__init__"]
    /\ ret = ReturnedNone
    /\ pc = "idle"
    /\ low = DyOfInt(0)
    /\ high = DyOfInt(0)
    /\ target_viability = RatioZero
    /\ iteration = 0
    /\ viability_scans = 0
    /\ providers = <<>>
    /\ NoEvaluation

\* Variant: the new state is put in front of the trace.
add_agent_state_Prepend ==
    /\ pc = "idle"
    /\ Len(agent_states) < MaxTrace
    /\ \E state \in AgentStates :
          /\ agent_states' = <<state>> \o agent_states
          /\ call' = [op |-> "add_agent_state", state |-> state]
    /\ ret' = ReturnedNone
    /\ UNCHANGED <<config, evaluation, providers, locals>>

add_agent_state ==
    /\ pc = "idle"
    /\ Len(agent_states) < MaxTrace
    /\ \E state \in AgentStates :
          /\ agent_states' = Append(agent_states, state)
          /\ call' = [op |-> "add_agent_state", state |-> state]
    /\ ret' = ReturnedNone
    /\ UNCHANGED <<config, evaluation, providers, locals>>

TrustThresholds == {0, 60, 100}

BudgetThresholds == {None, Some(0), Some(4)}

Call_calculate_viability ==
    /\ pc = "idle"
    /\ \E eta \in TrustThresholds, bt \in BudgetThresholds :
          /\ call' = [op |-> "calculate_viability", trust_threshold |-> eta,
                      budget_threshold |-> bt]
          /\ ret' = Returned("ratio", calculate_viability(agent_states, budget_config,
                                                          DyOfInt(eta), bt))
    /\ UNCHANGED <<config, evaluation, providers, agent_states, locals>>

CurrentTrusts == {-500, 50, 9950}

EvaluationResults ==
    {EvaluationResult(TRUE, 90), EvaluationResult(FALSE, 10)}
    \cup {CorrectnessResult(c, x) : c \in BOOLEAN, x \in {10, 90}}

Call_update_trust ==
    /\ pc = "idle"
    /\ \E t \in CurrentTrusts, r \in EvaluationResults :
          /\ call' = [op |-> "update_trust", current_trust |-> t, evaluation_result |-> r]
          /\ ret' = update_trust(trust_config, t, r)
    /\ UNCHANGED <<config, evaluation, providers, agent_states, locals>>

CurrentBudgets == {1000, 10000}

Costs == {100, 2000}

Trusts == {500, 20000}

Call_update_budget ==
    /\ pc = "idle"
    /\ \E b \in CurrentBudgets, c \in Costs, t \in Trusts :
          /\ call' = [op |-> "update_budget", current_budget |-> b, cost |-> c, trust |-> t]
          /\ ret' = Returned("float", update_budget(budget_config, b, c, t))
    /\ UNCHANGED <<config, evaluation, providers, agent_states, locals>>

TokenMaps ==
    {<<>>,
     [k \in {<<"a">>, <<"a", "b">>} |-> IF k = <<"a">> THEN -50 ELSE -120]}

TargetSequences ==
    {<<>>, <<"a", "b">>, <<"a", " ", "b">>, <<" ", "a", " ", " ", "b", " ", "a">>}

Call_calculate_log_likelihood ==
    /\ pc = "idle"
    /\ \E m \in TokenMaps, s \in TargetSequences :
          /\ call' = [op |-> "calculate_log_likelihood", token_probs |-> m,
                      target_sequence |-> s]
          /\ ret' = Returned("float", calculate_log_likelihood(trust_config, m, s))
    /\ UNCHANGED <<config, evaluation, providers, agent_states, locals>>

Call_get_performance_trajectory ==
    /\ pc = "idle"
    /\ call' = [op |-> "get_performance_trajectory"]
    /\ ret' = Returned("dict", get_performance_trajectory(agent_states))
    /\ UNCHANGED <<config, evaluation, providers, agent_states, locals>>

AgentStateLists ==
    {<<>>, <<AgentState(60, 3, 5)>>, <<AgentState(60, 3, 5), AgentState(-40, 3, 1)>>}

EnvironmentStateLists == {<<>>, <<7>>, <<7, 0>>}

\* Variant: the agent states passed in are recorded in the trace.
Call_calculate_mutual_information_Records ==
    /\ pc = "idle"
    /\ \E a \in AgentStateLists, e \in EnvironmentStateLists :
          /\ call' = [op |-> "calculate_mutual_information", agent_states |-> a,
                      environment_states |-> e]
          /\ ret' = calculate_mutual_information(a, e)
          /\ agent_states' = IF Len(agent_states) + Len(a) <= MaxTrace
                             THEN agent_states \o a ELSE agent_states
    /\ UNCHANGED <<config, evaluation, providers, locals>>

Call_calculate_mutual_information ==
    /\ pc = "idle"
    /\ \E a \in AgentStateLists, e \in EnvironmentStateLists :
          /\ call' = [op |-> "calculate_mutual_information", agent_states |-> a,
                      environment_states |-> e]
          /\ ret' = calculate_mutual_information(a, e)
    /\ UNCHANGED <<config, evaluation, providers, agent_states, locals>>

(***************************************************************************)
(* SemioticEvaluator.calculate_semantic_threshold: the entry (the empty    *)
(* trace returns at once), one action per loop iteration, and the return.  *)
(* The method is synchronous: nothing else runs until it has returned.     *)
(***************************************************************************)
max_trust_of(states) == SeqMax([i \in 1..Len(states) |-> states[i].trust])

\* Variant: the search starts from the first trust value of the trace.
search_start_LowFromFirst(states, bcfg) ==
    LET max_viability == calculate_viability(states, bcfg, DyOfInt(0), None)
    IN  [returns |-> FALSE,
         target_viability |-> RatioHalf(max_viability),
         low |-> DyOfInt(states[1].trust),
         high |-> DyOfInt(max_trust_of(states))]

\* The target viability and the initial bounds of the search.
search_start(states, bcfg) ==
    LET max_viability == calculate_viability(states, bcfg, DyOfInt(0), None)
    IN  [returns |-> FALSE,
         target_viability |-> RatioHalf(max_viability),
         low |-> DyOfInt(0),
         high |-> DyOfInt(max_trust_of(states))]

\* Variant: no early return, so max() meets an empty sequence.
search_entry_NoGuard(states, bcfg) ==
    IF states = <<>> THEN [returns |-> TRUE, ret |-> Raised("ValueError")]
    ELSE search_start(states, bcfg)

\* The lines before the loop: the early return on an empty trace, or the
\* start of the search.
search_entry(states, bcfg) ==
    IF states = <<>> THEN [returns |-> TRUE, ret |-> Returned("dyadic", DyOfInt(0))]
    ELSE search_start(states, bcfg)

Call_calculate_semantic_threshold ==
    /\ pc = "idle"
    /\ call' = [op |-> "calculate_semantic_threshold"]
    /\ LET e == search_entry(agent_states, budget_config)
       IN  IF e.returns
           THEN /\ ret' = e.ret
                /\ UNCHANGED locals
           ELSE /\ target_viability' = e.target_viability
                /\ low' = e.low
                /\ high' = e.high
                /\ iteration' = 0
                /\ viability_scans' = 1
                /\ pc' = "loop"
                /\ ret' = Pending
    /\ UNCHANGED <<config, evaluation, providers, agent_states>>

midpoint(lo, hi) == DyHalf(FloatAdd(lo, hi))

\* Variant: the upper bound moves only when viability is strictly below target.
search_step_Strict(states, bcfg, lo, hi, target) ==
    LET mid == midpoint(lo, hi)
        mid_viability == calculate_viability(states, bcfg, mid, None)
    IN  IF ~RatioLeq(target, mid_viability)
        THEN [low |-> lo, high |-> mid]
        ELSE [low |-> mid, high |-> hi]

\* Variant: the two branches move the wrong bound.
search_step_Swapped(states, bcfg, lo, hi, target) ==
    LET mid == midpoint(lo, hi)
        mid_viability == calculate_viability(states, bcfg, mid, None)
    IN  IF RatioLeq(mid_viability, target)
        THEN [low |-> mid, high |-> hi]
        ELSE [low |-> lo, high |-> mid]

\* One iteration of the binary search: the bounds after it.
search_step(states, bcfg, lo, hi, target) ==
    LET mid == midpoint(lo, hi)
        mid_viability == calculate_viability(states, bcfg, mid, None)
    IN  IF RatioLeq(mid_viability, target)
        THEN [low |-> lo, high |-> mid]
        ELSE [low |-> mid, high |-> hi]

Iterate_calculate_semantic_threshold ==
    /\ pc = "loop"
    /\ iteration < Iterations
    /\ LET b == search_step(agent_states, budget_config, low, high, target_viability)
       IN  low' = b.low /\ high' = b.high
    /\ iteration' = iteration + 1
    /\ viability_scans' = viability_scans + 1
    /\ UNCHANGED <<config, evaluation, providers, agent_states, call, ret, pc, target_viability>>

\* Variant: the search also stops once the bounds are within 2^-20.
Return_calculate_semantic_threshold_Converged ==
    /\ pc = "loop"
    /\ iteration = Iterations \/ DyLess(high, DyAdd(low, DyUlpAt(20)))
    /\ ret' = Returned("dyadic", low)
    /\ pc' = "idle"
    /\ low' = DyOfInt(0)
    /\ high' = DyOfInt(0)
    /\ target_viability' = RatioZero
    /\ iteration' = 0
    /\ viability_scans' = 0
    /\ UNCHANGED <<config, evaluation, providers, agent_states, call>>

Return_calculate_semantic_threshold ==
    /\ pc = "loop"
    /\ iteration = Iterations
    /\ ret' = Returned("dyadic", low)
    /\ pc' = "idle"
    /\ low' = DyOfInt(0)
    /\ high' = DyOfInt(0)
    /\ target_viability' = RatioZero
    /\ iteration' = 0
    /\ viability_scans' = 0
    /\ UNCHANGED <<config, evaluation, providers, agent_states, call>>

Next ==
    \/ add_agent_state
    \/ Call_calculate_viability
    \/ Call_update_trust
    \/ Call_update_budget
    \/ Call_calculate_log_likelihood
    \/ Call_get_performance_trajectory
    \/ Call_calculate_mutual_information
    \/ Call_calculate_semantic_threshold
    \/ Iterate_calculate_semantic_threshold
    \/ Return_calculate_semantic_threshold

Spec == Init /\ [][Next]_vars

\* The bounds after k more iterations of the search.
RECURSIVE search_loop(_, _, _, _, _, _)
search_loop(states, bcfg, lo, hi, target, k) ==
    IF k = 0 THEN [low |-> lo, high |-> hi]
    ELSE LET b == search_step(states, bcfg, lo, hi, target)
         IN  search_loop(states, bcfg, b.low, b.high, target, k - 1)

\* calculate_semantic_threshold as a function of the trace: what the call
\* returns once its fifty iterations are done.
calculate_semantic_threshold(states, bcfg) ==
    LET e == search_entry(states, bcfg)
    IN  IF e.returns THEN e.ret
        ELSE Returned("dyadic",
                      search_loop(states, bcfg, e.low, e.high,
                                  e.target_viability, Iterations).low)

\* A step of the running calculate_semantic_threshold.
threshold_step ==
    Iterate_calculate_semantic_threshold \/ Return_calculate_semantic_threshold

\* calculate_semantic_threshold is an ordinary synchronous method: once
\* entered, the interpreter keeps executing its loop and its return.  This is
\* weak fairness of threshold_step, WF_vars(threshold_step), written out as
\* []<>(not enabled) \/ []<>(taken): a threshold_step is enabled exactly when
\* pc = "loop" (Iterate is guarded by iteration < Iterations, Return by
\* iteration = Iterations, and iteration never exceeds Iterations there).
LiveSpec ==
    /\ Spec
    /\ ([]<>(pc # "loop") \/ []<><<threshold_step>>_vars)

(***************************************************************************)
(* semiosis/sit/math_utils.py: functions without state.  A result that     *)
(* goes through np.exp, np.log, np.sqrt or the t distribution is kept as   *)
(* the expression that determines it (kind "expr": the function and the    *)
(* arguments that reach the formula); the returns that are literals or     *)
(* copies of an input are exact.                                           *)
(***************************************************************************)
Float(x) == [kind |-> "float", float |-> x]

Expr(fn, args) == [kind |-> "expr", fn |-> fn, args |-> args]

\* Variant: a token missing from the dictionary always gets -10.0.
extract_token_probabilities_FixedDefault(response, logprobs_dict, default_logprob) ==
    LET tokens == split(response)
    IN  [i \in 1..Len(tokens) |->
            <<tokens[i], IF tokens[i] \in DOMAIN logprobs_dict
                         THEN logprobs_dict[tokens[i]] ELSE DefaultLogprob>>]

extract_token_probabilities(response, logprobs_dict, default_logprob) ==
    LET tokens == split(response)
    IN  [i \in 1..Len(tokens) |->
            <<tokens[i], IF tokens[i] \in DOMAIN logprobs_dict
                         THEN logprobs_dict[tokens[i]] ELSE default_logprob>>]

\* np.exp(lp) is 0.0 for lp below about -745.13 (the smallest subnormal).
ExpUnderflows(lp) == lp <= -74514

logprobs_of(token_logprobs) == [i \in 1..Len(token_logprobs) |-> token_logprobs[i][2]]

calculate_cross_entropy(token_logprobs) ==
    IF token_logprobs = <<>> THEN Float(0)
    ELSE LET logprobs == logprobs_of(token_logprobs)
         IN  IF \A i \in 1..Len(logprobs) : ExpUnderflows(logprobs[i]) THEN Float(0)
             ELSE Expr("cross_entropy", logprobs)

calculate_perplexity(token_logprobs) ==
    IF token_logprobs = <<>> THEN Float(0)
    ELSE LET logprobs == logprobs_of(token_logprobs)
         IN  Expr("perplexity", Ratio(SeqSum(logprobs), Len(logprobs)))

calculate_kl_divergence(p_logprobs, q_logprobs) ==
    IF Len(p_logprobs) # Len(q_logprobs) \/ p_logprobs = <<>> THEN Float(0)
    ELSE IF \/ \A i \in 1..Len(p_logprobs) : ExpUnderflows(p_logprobs[i])
            \/ \A i \in 1..Len(q_logprobs) : ExpUnderflows(q_logprobs[i])
         THEN Float(0)
         ELSE Expr("kl_divergence", <<p_logprobs, q_logprobs>>)

\* Variant: a single sample gets the interval of no samples.
calculate_confidence_interval_NoSample(data, confidence) ==
    IF Len(data) < 2 THEN [kind |-> "pair", pair |-> <<0, 0>>]
    ELSE Expr("confidence_interval", <<data, confidence>>)

calculate_confidence_interval(data, confidence) ==
    IF Len(data) < 2
    THEN (IF data # <<>> THEN [kind |-> "pair", pair |-> <<data[1], data[1]>>]
          ELSE [kind |-> "pair", pair |-> <<0, 0>>])
    ELSE Expr("confidence_interval", <<data, confidence>>)

\* n * sum((x - mean(x)) * (y - mean(y))), which is an integer.
Covariation(x, y) ==
    Len(x) * SeqSum([i \in 1..Len(x) |-> x[i] * y[i]]) - SeqSum(x) * SeqSum(y)

calculate_correlation(x, y) ==
    IF Len(x) # Len(y) \/ Len(x) < 2 THEN Float(0)
    ELSE IF Covariation(x, x) = 0 \/ Covariation(y, y) = 0 THEN Float(0)
         ELSE Expr("correlation",
                   [numerator |-> Covariation(x, y),
                    denominator_squared |-> Covariation(x, x) * Covariation(y, y)])

RECURSIVE Insert(_, _)
Insert(v, sorted) ==
    IF sorted = <<>> THEN <<v>>
    ELSE IF v <= Head(sorted) THEN <<v>> \o sorted
    ELSE <<Head(sorted)>> \o Insert(v, Tail(sorted))

RECURSIVE Sorted(_)
Sorted(data) == IF data = <<>> THEN <<>> ELSE Insert(Head(data), Sorted(Tail(data)))

\* 4 * np.percentile(data, 25 * quarter), by linear interpolation between the
\* two closest ranks of the sorted data.
PercentileTimes4(data, quarter) ==
    LET sorted == Sorted(data)
        rank4  == quarter * (Len(data) - 1)
        k      == rank4 \div 4
        f      == rank4 % 4
    IN  IF f = 0 THEN 4 * sorted[k + 1]
        ELSE 4 * sorted[k + 1] + f * (sorted[k + 2] - sorted[k + 1])

\* The indices (from 0) of the outliers, in increasing order; factor is
\* given in halves (3 is 1.5), the bounds are compared after scaling by 8.
detect_outliers_iqr(data, factor_halves) ==
    IF Len(data) < 4 THEN [kind |-> "list", list |-> <<>>]
    ELSE LET q1 == PercentileTimes4(data, 1)
             q3 == PercentileTimes4(data, 3)
             iqr == q3 - q1
             lower_bound == 2 * q1 - factor_halves * iqr
             upper_bound == 2 * q3 + factor_halves * iqr
             outliers == {i \in 1..Len(data) :
                             8 * data[i] < lower_bound \/ 8 * data[i] > upper_bound}
             RECURSIVE Ascending(_)
             Ascending(set) ==
                 IF set = {} THEN <<>>
                 ELSE LET least == CHOOSE i \in set : \A j \in set : i <= j
                      IN  <<least - 1>> \o Ascending(set \ {least})
         IN  [kind |-> "list", list |-> Ascending(outliers)]

(***************************************************************************)
(* Calls of the math_utils functions.  They touch no evaluator.            *)
(***************************************************************************)
Responses ==
    {<<>>, <<" ", " ">>, <<"a", "b">>, <<"a", " ", "b">>,
     <<" ", "a", " ", " ", "b", " ", "a">>}

LogprobDicts ==
    TokenMaps \cup {[k \in {<<"b">>} |-> -30]}

DefaultLogprobs == {DefaultLogprob, -200}

Call_extract_token_probabilities ==
    /\ pc = "idle"
    /\ \E r \in Responses, m \in LogprobDicts, d \in DefaultLogprobs :
          /\ call' = [op |-> "extract_token_probabilities", response |-> r,
                      logprobs_dict |-> m, default_logprob |-> d]
          /\ ret' = [kind |-> "list", list |-> extract_token_probabilities(r, m, d)]
    /\ UNCHANGED <<config, evaluation, providers, agent_states, locals>>

TokenLogprobLists ==
    {<<>>, <<<<"a", -50>>>>, <<<<"a", -50>>, <<"b", -1000>>>>, <<<<"a", -100000>>>>}

Call_calculate_cross_entropy ==
    /\ pc = "idle"
    /\ \E t \in TokenLogprobLists :
          /\ call' = [op |-> "calculate_cross_entropy", token_logprobs |-> t]
          /\ ret' = calculate_cross_entropy(t)
    /\ UNCHANGED <<config, evaluation, providers, agent_states, locals>>

Call_calculate_perplexity ==
    /\ pc = "idle"
    /\ \E t \in TokenLogprobLists :
          /\ call' = [op |-> "calculate_perplexity", token_logprobs |-> t]
          /\ ret' = calculate_perplexity(t)
    /\ UNCHANGED <<config, evaluation, providers, agent_states, locals>>

LogprobLists == {<<>>, <<-50>>, <<-50, -120>>, <<-100000, -100000>>}

Call_calculate_kl_divergence ==
    /\ pc = "idle"
    /\ \E p \in LogprobLists, q \in LogprobLists :
          /\ call' = [op |-> "calculate_kl_divergence", p_logprobs |-> p,
                      q_logprobs |-> q]
          /\ ret' = calculate_kl_divergence(p, q)
    /\ UNCHANGED <<config, evaluation, providers, agent_states, locals>>

Series == {<<>>, <<1>>, <<1, 2>>, <<3, 3>>, <<1, 2, 4>>}

Confidences == {95}

Call_calculate_confidence_interval ==
    /\ pc = "idle"
    /\ \E data \in Series, confidence \in Confidences :
          /\ call' = [op |-> "calculate_confidence_interval", data |-> data,
                      confidence |-> confidence]
          /\ ret' = calculate_confidence_interval(data, confidence)
    /\ UNCHANGED <<config, evaluation, providers, agent_states, locals>>

Call_calculate_correlation ==
    /\ pc = "idle"
    /\ \E x \in Series, y \in Series :
          /\ call' = [op |-> "calculate_correlation", x |-> x, y |-> y]
          /\ ret' = calculate_correlation(x, y)
    /\ UNCHANGED <<config, evaluation, providers, agent_states, locals>>

DataLists == {<<>>, <<7>>, <<1, 2, 300>>, <<1, 2, 3, 100>>, <<2, 1, 50, 3, 4>>}

FactorsInHalves == {3}

Call_detect_outliers_iqr ==
    /\ pc = "idle"
    /\ \E data \in DataLists, factor \in FactorsInHalves :
          /\ call' = [op |-> "detect_outliers_iqr", data |-> data, factor |-> factor]
          /\ ret' = detect_outliers_iqr(data, factor)
    /\ UNCHANGED <<config, evaluation, providers, agent_states, locals>>

\* The utility functions, and the one method of the evaluator that shares
\* their treatment of empty and mismatched inputs.
MathNext ==
    \/ Call_extract_token_probabilities
    \/ Call_calculate_cross_entropy
    \/ Call_calculate_perplexity
    \/ Call_calculate_kl_divergence
    \/ Call_calculate_confidence_interval
    \/ Call_calculate_correlation
    \/ Call_detect_outliers_iqr
    \/ Call_calculate_mutual_information

MathSpec == Init /\ [][MathNext]_vars

(***************************************************************************)
(* semiosis/contexts/interventions.py.  A provider is an object with a     *)
(* get_context method; apply_intervention replaces that method by a        *)
(* wrapper around the one it finds.  A provider is kept as the metadata    *)
(* mapping its own get_context returns (a new mapping on each call, or the *)
(* one mapping it holds), the wrappers installed so far (innermost first)  *)
(* and the number of get_context calls made on it.                         *)
(***************************************************************************)
BaseMetadata == [source |-> "test"]

SimpleContext(shared) ==
    [shared |-> shared, metadata |-> BaseMetadata, wrappers |-> <<>>, calls |-> 0]

\* The intervention functions used: one that returns the mapping it is given
\* (as the uppercase intervention of the tests) and one that returns a marked
\* copy (as shuffle_content); the name and noise level passed with each.
Interventions ==
    {[fn |-> "in_place", name |-> "uppercase", noise_level |-> 0],
     [fn |-> "copy", name |-> "shuffle_content", noise_level |-> 30]}

\* metadata.get("interventions", [])
get_interventions(metadata) ==
    IF "interventions" \in DOMAIN metadata THEN metadata.interventions ELSE <<>>

\* mapping[key] = value
SetItem(mapping, key, value) ==
    [k \in DOMAIN mapping \cup {key} |-> IF k = key THEN value ELSE mapping[k]]

\* The metadata object a call of the provider's current get_context returns
\* after the first k wrappers: whether it is the mapping the provider holds
\* (`held`), what it contains, and what the held mapping contains by then.
RECURSIVE modified_get_context(_, _)
modified_get_context(provider, k) ==
    IF k = 0
    THEN [held |-> provider.shared, metadata |-> provider.metadata,
          store |-> provider.metadata]
    ELSE LET original == modified_get_context(provider, k - 1)
             w        == provider.wrappers[k]
             entry    == [name |-> w.name, noise_level |-> w.noise_level]
             tracked  == get_interventions(original.metadata) \o <<entry>>
         IN  IF w.fn = "in_place"
             THEN LET written == SetItem(original.metadata, "interventions", tracked)
                  IN  [held |-> original.held, metadata |-> written,
                       store |-> IF original.held THEN written ELSE original.store]
             ELSE LET copied == SetItem(original.metadata, "shuffled", TRUE)
                  IN  [held |-> FALSE,
                       metadata |-> SetItem(copied, "interventions", tracked),
                       store |-> original.store]

InterventionInit ==
    /\ trust_config = TrustConfig(DefaultMinTrust, DefaultMaxTrust)
    /\ budget_config = BudgetConfig("default", DefaultMinBudget)
    /\ agent_states = <<>>
    /\ call = [op |-> "__init__"]
    /\ ret = ReturnedNone
    /\ pc = "idle"
    /\ low = DyOfInt(0)
    /\ high = DyOfInt(0)
    /\ target_viability = RatioZero
    /\ iteration = 0
    /\ viability_scans = 0
    /\ \E first \in BOOLEAN, second \in BOOLEAN :
          providers = <<SimpleContext(first), SimpleContext(second)>>
    /\ NoEvaluation

apply_intervention ==
    /\ \E p \in 1..Len(providers), i \in Interventions :
          /\ Len(providers[p].wrappers) < MaxInterventions
          /\ providers' = [providers EXCEPT ![p].wrappers = Append(@, i)]
          /\ call' = [op |-> "apply_intervention", provider |-> p, intervention |-> i]
          /\ ret' = [kind |-> "provider", provider |-> p]
    /\ UNCHANGED <<config, evaluation, agent_states, locals>>

\* composed(provider) for composed = compose_interventions(first, second),
\* each of the two applying one intervention to the provider it is given.
compose_interventions ==
    /\ \E p \in 1..Len(providers), first \in Interventions, second \in Interventions :
          /\ Len(providers[p].wrappers) + 2 <= MaxInterventions
          /\ providers' = [providers EXCEPT ![p].wrappers = @ \o <<first, second>>]
          /\ call' = [op |-> "compose_interventions", provider |-> p,
                      interventions |-> <<first, second>>]
          /\ ret' = [kind |-> "provider", provider |-> p]
    /\ UNCHANGED <<config, evaluation, agent_states, locals>>

get_context ==
    /\ \E p \in 1..Len(providers) :
          /\ providers[p].calls < MaxCalls
          /\ LET result == modified_get_context(providers[p], Len(providers[p].wrappers))
             IN  /\ providers' = [providers EXCEPT ![p].metadata = result.store,
                                                   ![p].calls = @ + 1]
                 /\ ret' = [kind |-> "context", metadata |-> result.metadata]
          /\ call' = [op |-> "get_context", provider |-> p]
    /\ UNCHANGED <<config, evaluation, agent_states, locals>>

InterventionNext ==
    \/ apply_intervention
    \/ compose_interventions
    \/ get_context

InterventionSpec == InterventionInit /\ [][InterventionNext]_vars

(***************************************************************************)
(* tests/test_evaluation.py, test_minimal_end_to_end_workflow: a caller    *)
(* that carries an AgentState from task to task, takes the next trust and  *)
(* budget from the evaluator and appends the state built from them.  The   *)
(* TrustConfig dataclass and SemioticEvaluator.__init__ accept any pair of *)
(* bounds, so the evaluator may hold bounds with min_trust > max_trust.    *)
(***************************************************************************)
WorkflowConfigurations ==
    Configurations
    \cup {<<TrustConfig(1000, 0), BudgetConfig("default", DefaultMinBudget)>>}

StartingTrusts == {-500, 500, 20000}

StartingBudgets == {-1000, 1000}

WorkflowInit ==
    /\ \E c \in WorkflowConfigurations : trust_config = c[1] /\ budget_config = c[2]
    /\ agent_states = <<>>
    /\ call = [op |-> "__init__"]
    /\ ret = ReturnedNone
    /\ pc = "idle"
    /\ low = DyOfInt(0)
    /\ high = DyOfInt(0)
    /\ target_viability = RatioZero
    /\ iteration = 0
    /\ viability_scans = 0
    /\ providers = <<>>
    /\ \E t \in StartingTrusts, c \in Costs, b \in StartingBudgets :
          agent_state = AgentState(t, c, b)
    /\ runner = None
    /\ run = None
    /\ collaborators = None

\* Variant: the state is appended with the trust the task started from.
workflow_task_StaleTrust ==
    /\ Len(agent_states) < MaxTrace
    /\ \E eval_result \in EvaluationResults :
          LET new_trust == update_trust(trust_config, agent_state.trust, eval_result)
          IN  IF new_trust.kind = "raise"
              THEN /\ call' = [op |-> "update_trust",
                               current_trust |-> agent_state.trust,
                               evaluation_result |-> eval_result]
                   /\ ret' = new_trust
                   /\ UNCHANGED <<agent_states, agent_state>>
              ELSE LET new_budget == update_budget(budget_config, agent_state.budget,
                                                   agent_state.cost, new_trust.float)
                       final_state == AgentState(agent_state.trust, agent_state.cost,
                                                 new_budget)
                   IN  /\ agent_states' = Append(agent_states, final_state)
                       /\ agent_state' = final_state
                       /\ call' = [op |-> "add_agent_state", state |-> final_state]
                       /\ ret' = ReturnedNone
    /\ UNCHANGED <<config, locals, providers, runner, run, collaborators>>

\* One task of the workflow: update_trust on the outcome (the exception it
\* raises ends the task with nothing appended), update_budget with the new
\* trust, and add_agent_state of the state built from the two.
workflow_task ==
    /\ Len(agent_states) < MaxTrace
    /\ \E eval_result \in EvaluationResults :
          LET new_trust == update_trust(trust_config, agent_state.trust, eval_result)
          IN  IF new_trust.kind = "raise"
              THEN /\ call' = [op |-> "update_trust",
                               current_trust |-> agent_state.trust,
                               evaluation_result |-> eval_result]
                   /\ ret' = new_trust
                   /\ UNCHANGED <<agent_states, agent_state>>
              ELSE LET new_budget == update_budget(budget_config, agent_state.budget,
                                                   agent_state.cost, new_trust.float)
                       final_state == AgentState(new_trust.float, agent_state.cost,
                                                 new_budget)
                   IN  /\ agent_states' = Append(agent_states, final_state)
                       /\ agent_state' = final_state
                       /\ call' = [op |-> "add_agent_state", state |-> final_state]
                       /\ ret' = ReturnedNone
    /\ UNCHANGED <<config, locals, providers, runner, run, collaborators>>

WorkflowNext == workflow_task

WorkflowSpec == WorkflowInit /\ [][WorkflowNext]_vars

(***************************************************************************)
(* semiosis/evaluation/runner.py: EvaluationRunner.  A runner holds its    *)
(* context system (or None), its interventions, and the results and agent  *)
(* states it has recorded.  run_evaluation is modelled by its entry (the   *)
(* environment is initialised and the tasks generated), one action per     *)
(* task of the loop, and its exit (cleanup and the compiled report).  A    *)
(* call on a collaborator may raise; the exception leaves run_evaluation   *)
(* at once, for nothing in it catches exceptions.  collaborators lists the *)
(* calls made on the environment, context system, interventions, agent and *)
(* task evaluator since the current run_evaluation began, with the         *)
(* recording of a task's result among them.                                *)
(***************************************************************************)
MaxTasks == 2

MaxRuns == 2

PlaceholderBudget == 10000

Called(op, who, task) == [op |-> op, intervention |-> who, task |-> task]

\* EvaluationRunner(agent, environment, context_system, interventions): a
\* context system is given or not, and so many interventions, numbered in
\* list order.
EvaluationRunner(context_system, n) ==
    [context_system |-> context_system,
     interventions |-> [k \in 1..n |-> k],
     results |-> <<>>,
     agent_states |-> <<>>]

RunnerInit ==
    /\ trust_config = TrustConfig(DefaultMinTrust, DefaultMaxTrust)
    /\ budget_config = BudgetConfig("default", DefaultMinBudget)
    /\ agent_states = <<>>
    /\ call = [op |-> "__init__"]
    /\ ret = ReturnedNone
    /\ pc = "idle"
    /\ low = DyOfInt(0)
    /\ high = DyOfInt(0)
    /\ target_viability = RatioZero
    /\ iteration = 0
    /\ viability_scans = 0
    /\ providers = <<>>
    /\ agent_state = None
    /\ \E context_system \in BOOLEAN, n \in 0..MaxInterventions :
          runner = EvaluationRunner(context_system, n)
    /\ run = [pc |-> "idle", runs |-> 0, tasks |-> <<>>, i |-> 0]
    /\ collaborators = <<>>

\* task_generator.generate_tasks(): so many tasks, with their ids.
generate_tasks(n) == [i \in 1..n |-> [task_id |-> i, query |-> i]]

\* The lines of run_evaluation before its loop.
run_evaluation_begin ==
    /\ run.pc # "loop"
    /\ run.runs < MaxRuns
    /\ \E n \in 0..MaxTasks :
          run' = [pc |-> "loop", runs |-> run.runs + 1, tasks |-> generate_tasks(n),
                  i |-> 0]
    /\ collaborators' = <<Called("initialize", 0, 0)>>
    /\ call' = [op |-> "run_evaluation"]
    /\ ret' = Pending
    /\ UNCHANGED <<config, locals, agent_states, providers, agent_state, runner>>

\* The calls one iteration of the loop makes, in order, for the i-th task.
task_calls(rn, i) ==
    LET n == Len(rn.interventions)
        with_context ==
            <<Called("filter_context", 0, i)>>
            \o [k \in 1..n |-> Called("apply", rn.interventions[k], i)]
            \o <<Called("get_context_string", 0, i)>>
    IN  (IF rn.context_system THEN with_context ELSE <<>>)
        \o <<Called("generate_response", 0, i), Called("evaluate", 0, i),
             Called("record", 0, i)>>
        \o [k \in 1..n |-> Called("revert", rn.interventions[n + 1 - k], i)]

\* The evaluator's verdicts: EvaluationResult(success, score).
Verdicts == {EvaluationResult(TRUE, 90), EvaluationResult(FALSE, 10)}

\* len(context_elements) when a context system has supplied the context.
ContextSizes == {0, 2}

\* The entry appended to self.results and the one appended to
\* self.agent_states for a task.
result_of(task, evaluation_result, context_used, cost) ==
    [task_id |-> task.task_id, query |-> task.query, evaluation |-> evaluation_result,
     context_used |-> context_used, cost |-> cost]

agent_state_of(task, evaluation_result, cost) ==
    [query |-> task.query,
     state |-> AgentState(evaluation_result.score, cost, PlaceholderBudget)]

\* One iteration of the loop.  Either every call returns, or the failing-th
\* call raises and the exception ends run_evaluation; the result and the
\* agent state are appended once the evaluator has returned.
run_evaluation_task ==
    /\ run.pc = "loop"
    /\ run.i < Len(run.tasks)
    /\ LET i == run.i + 1
           task == run.tasks[i]
           calls == task_calls(runner, i)
           recording == CHOOSE j \in 1..Len(calls) : calls[j].op = "record"
       IN  \E failing \in (0..Len(calls)) \ {recording},
              evaluation_result \in Verdicts, cost \in CostValues,
              size \in ContextSizes :
              LET made == IF failing = 0 THEN calls ELSE SubSeq(calls, 1, failing)
                  recorded == failing = 0 \/ failing > recording
                  context_used == IF runner.context_system THEN size ELSE 0
              IN  /\ collaborators' = collaborators \o made
                  /\ runner' =
                        IF recorded
                        THEN [runner EXCEPT
                                 !.results = Append(@, result_of(task, evaluation_result,
                                                                 context_used, cost)),
                                 !.agent_states = Append(@, agent_state_of(
                                                     task, evaluation_result, cost))]
                        ELSE runner
                  /\ IF failing = 0
                     THEN /\ run' = [run EXCEPT !.i = i]
                          /\ ret' = Pending
                     ELSE /\ run' = [run EXCEPT !.pc = "raised"]
                          /\ ret' = Raised("Exception")
    /\ UNCHANGED <<config, locals, agent_states, providers, agent_state, call>>

\* _compile_results(): the report over self.results and self.agent_states.
_compile_results(rn) ==
    LET total_tasks == Len(rn.results)
        successful_tasks ==
            Cardinality({i \in 1..total_tasks : rn.results[i].evaluation.flag})
    IN  [summary |->
            [total_tasks |-> total_tasks,
             successful_tasks |-> successful_tasks,
             success_rate |-> IF total_tasks > 0
                              THEN Ratio(successful_tasks, total_tasks) ELSE RatioZero,
             total_cost |-> SeqSum([i \in 1..total_tasks |-> rn.results[i].cost]),
             average_score |->
                 IF total_tasks > 0
                 THEN Ratio(SeqSum([i \in 1..total_tasks |->
                                       rn.results[i].evaluation.score]),
                            total_tasks)
                 ELSE RatioZero],
         results |-> rn.results,
         agent_states |-> rn.agent_states,
         metadata |-> [has_context_system |-> rn.context_system,
                       intervention_count |-> Len(rn.interventions)]]

\* The lines of run_evaluation after its loop.
run_evaluation_end ==
    /\ run.pc = "loop"
    /\ run.i = Len(run.tasks)
    /\ collaborators' = Append(collaborators, Called("cleanup", 0, 0))
    /\ ret' = Returned("dict", _compile_results(runner))
    /\ run' = [run EXCEPT !.pc = "returned"]
    /\ UNCHANGED <<config, locals, agent_states, providers, agent_state, runner, call>>

RunnerNext ==
    \/ run_evaluation_begin
    \/ run_evaluation_task
    \/ run_evaluation_end

RunnerSpec == RunnerInit /\ [][RunnerNext]_vars

(***************************************************************************)
(* Properties of the engine.                                               *)
(***************************************************************************)
DefaultBudgetConfig == BudgetConfig("default", DefaultMinBudget)

DefaultTrustConfig == TrustConfig(DefaultMinTrust, DefaultMaxTrust)

\* The recorded states above both thresholds, counted on the plain numbers.
Satisfying(eta, bt) ==
    {i \in 1..Len(agent_states) :
        agent_states[i].trust > eta /\ agent_states[i].budget > bt}

\* The (trust, budget) pairs (0.9,0.05),(0.7,0.03),(0.5,0.01),(0.3,0.0),(0.1,-0.01).
ExampleTrace ==
    <<AgentState(90, 1, 5), AgentState(70, 2, 3), AgentState(50, 1, 1),
      AgentState(30, 3, 0), AgentState(10, 2, -1)>>

\* C1: calculate_viability(eta) without a budget_threshold on a trace of
\* n >= 1 states returns k/n, k the number of states with trust > eta and
\* budget > min_budget, both strict; the five example pairs give 2/5 at 0.6.
C1_ViabilityIsFraction ==
    /\ (call.op = "calculate_viability" /\ call.budget_threshold = None
            /\ agent_states # <<>>)
          => ret = Returned("ratio",
                      Ratio(Cardinality(Satisfying(call.trust_threshold,
                                                   budget_config.min_budget)),
                            Len(agent_states)))
    /\ calculate_viability(ExampleTrace, DefaultBudgetConfig, DyOfInt(60), None) = Ratio(2, 5)

C1_Witness ==
    /\ call.op = "calculate_viability" /\ call.budget_threshold = None
    /\ Len(agent_states) = 3 /\ ret.ratio = Ratio(1, 3)
    /\ \E i \in 1..3 : agent_states[i].trust = call.trust_threshold
    /\ \E i \in 1..3 : /\ agent_states[i].trust > call.trust_threshold
                        /\ agent_states[i].budget = budget_config.min_budget

\* C2: for any thresholds calculate_viability returns a value in [0, 1],
\* exactly 0 when the trace is empty or no state has trust > trust_threshold
\* and budget > budget threshold, exactly 1 when every state has.
C2_ViabilityBounds ==
    call.op = "calculate_viability" =>
        LET bt  == IF call.budget_threshold.is_none THEN budget_config.min_budget
                   ELSE call.budget_threshold.v
            sat == Satisfying(call.trust_threshold, bt)
        IN  /\ ret.kind = "ratio"
            /\ 0 <= ret.ratio.num /\ ret.ratio.num <= ret.ratio.den
            /\ (agent_states = <<>> \/ sat = {}) => ret.ratio.num = 0
            /\ (agent_states # <<>> /\ sat = 1..Len(agent_states))
                  => ret.ratio.num = ret.ratio.den

\* C3: with min_trust <= max_trust, the value update_trust returns lies in
\* [min_trust, max_trust] for every current trust, outcome and score, and
\* clamping it again leaves it unchanged.
C3_TrustStaysInBounds ==
    (call.op = "update_trust" /\ ret.kind = "float"
        /\ trust_config.min_trust <= trust_config.max_trust)
      => /\ trust_config.min_trust <= ret.float
         /\ ret.float <= trust_config.max_trust
         /\ clamp_trust(trust_config, ret.float) = ret.float

C3_Witness ==
    /\ call.op = "update_trust" /\ ret.kind = "float"
    /\ call.current_trust + 2 * call.evaluation_result.score > trust_config.max_trust
    /\ call.evaluation_result.flag
    /\ ret.float = trust_config.max_trust

Clamp(x, lo, hi) == IF x < lo THEN lo ELSE IF x > hi THEN hi ELSE x

\* C4: update_trust(t, r) returns clamp(t + d, min_trust, max_trust) with
\* d = 2 * r.score when r signals correctness and d = -1 when it does not;
\* the penalty is the same for every score and the reward depends only on
\* the score.
C4_TrustDelta ==
    /\ (call.op = "update_trust" /\ ret.kind = "float"
            /\ trust_config.min_trust <= trust_config.max_trust)
          => LET r == call.evaluation_result
                 d == IF r.flag THEN 2 * r.score ELSE -100
             IN  ret.float = Clamp(call.current_trust + d,
                                   trust_config.min_trust, trust_config.max_trust)
    /\ \A t \in {-500, 50, 9950}, x \in {10, 90}, y \in {10, 90} :
          /\ update_trust(trust_config, t, CorrectnessResult(FALSE, x))
               = update_trust(trust_config, t, CorrectnessResult(FALSE, y))
          /\ update_trust(DefaultTrustConfig, 50, CorrectnessResult(TRUE, x)).float
               - update_trust(DefaultTrustConfig, 50, CorrectnessResult(TRUE, y)).float
               = 2 * (x - y)

C4_Witness ==
    /\ call.op = "update_trust" /\ ret.kind = "float"
    /\ ~call.evaluation_result.flag /\ call.evaluation_result.score = 10
    /\ ret.float = call.current_trust - 100

IsEvaluationResult(r) == r.attrs = {"success", "score", "details", "error", "metadata"}

\* C5: given an EvaluationResult record (fields success, score, details,
\* error, metadata), update_trust returns a value above t when success is
\* true, score > 0 and t < max_trust, and a value below t when success is
\* false and t > min_trust.
C5_EvaluationResultMovesTrust ==
    (call.op = "update_trust" /\ IsEvaluationResult(call.evaluation_result)) =>
        LET r == call.evaluation_result
            t == call.current_trust
        IN  /\ (r.flag /\ r.score > 0 /\ t < trust_config.max_trust)
                  => (ret.kind = "float" /\ ret.float > t)
            /\ (~r.flag /\ t > trust_config.min_trust)
                  => (ret.kind = "float" /\ ret.float < t)

\* C6: no engine operation ends in an error: each of them returns a value
\* for every trace, threshold, token map, target string and EvaluationResult.
C6_NoOperationRaises == ret.kind # "raise"

\* C7: update_budget(b, c, t) returns max(min_budget, f(b, c, t)), f the
\* configured update_function (default b - c + 0.1 * t, so 9.5 for 10, 1, 5):
\* never below min_budget, and exactly f(b, c, t) when that is not below
\* min_budget, with no upper clamp.
C7_BudgetFloorOnly ==
    /\ call.op = "update_budget" =>
          LET f == IF budget_config.update_function = "default"
                   THEN (10 * call.current_budget - 10 * call.cost + call.trust) \div 10
                   ELSE budget_update_function(budget_config.update_function,
                                               call.current_budget, call.cost, call.trust)
          IN  /\ ret.kind = "float"
              /\ ret.float >= budget_config.min_budget
              /\ f >= budget_config.min_budget => ret.float = f
              /\ f < budget_config.min_budget => ret.float = budget_config.min_budget
    /\ update_budget(DefaultBudgetConfig, 1000, 100, 500) = 950

C7_Witness ==
    /\ call.op = "update_budget"
    /\ ret.float > budget_config.initial_budget
    /\ ret.float > call.current_budget

IsThresholdReturn ==
    call.op = "calculate_semantic_threshold" /\ ret.kind \in {"dyadic", "raise"}

\* C8: calculate_semantic_threshold returns 0.0 on an empty trace, and a
\* value in [0, 1] on a non-empty trace whose trust values all lie in [0, 1]
\* and whose budgets are all above min_budget.
C8_ThresholdInUnitInterval ==
    IsThresholdReturn =>
        /\ agent_states = <<>> => ret = Returned("dyadic", DyOfInt(0))
        /\ (/\ agent_states # <<>>
            /\ \A i \in 1..Len(agent_states) :
                  /\ 0 <= agent_states[i].trust /\ agent_states[i].trust <= 100
                  /\ agent_states[i].budget > budget_config.min_budget)
              => /\ ret.kind = "dyadic"
                 /\ DyLeq(DyOfInt(0), ret.dyadic)
                 /\ DyLeq(ret.dyadic, DyOfInt(100))

C8_Witness ==
    /\ IsThresholdReturn
    /\ Len(agent_states) = 3
    /\ \A i \in 1..3 : agent_states[i].trust \in {60, 100} /\ agent_states[i].budget = 5
    /\ DyLess(DyOfInt(99), ret.dyadic) /\ DyLess(ret.dyadic, DyOfInt(100))

\* eta_c = inf{eta >= 0 : V(eta) <= 0.5 * V(0)}.  V steps down only at the
\* trust values of the trace and is continuous from the right, so the
\* infimum is 0 or one of the trust values.
EtaC ==
    LET cands == {0} \cup {agent_states[i].trust : i \in 1..Len(agent_states)}
        count(eta) == Cardinality(Satisfying(eta, budget_config.min_budget))
        reached == {eta \in cands : eta >= 0 /\ 2 * count(eta) <= count(0)}
    IN  CHOOSE eta \in reached : \A other \in reached : eta <= other

MaxTrust == max_trust_of(agent_states)

\* C9: on a non-empty trace with maximum trust M >= 0 the returned r
\* satisfies r <= eta_c and eta_c - r <= M / 2^50.
C9_WithinTwoToMinusFifty ==
    (IsThresholdReturn /\ agent_states # <<>> /\ MaxTrust >= 0) =>
        /\ DyLeq(ret.dyadic, DyOfInt(EtaC))
        /\ DyLeq(DyOfInt(EtaC), DyAdd(ret.dyadic, DyHalfTimes(DyOfInt(MaxTrust), Iterations)))

\* C9 as amended: r <= eta_c and eta_c - r <= M / 2^49; after k iterations
\* low <= eta_c <= high and high - low <= M / 2^(k-1), the midpoints being
\* rounded to double precision.
C9_ConvergesFromBelow ==
    /\ (IsThresholdReturn /\ agent_states # <<>> /\ MaxTrust >= 0) =>
          /\ DyLeq(ret.dyadic, DyOfInt(EtaC))
          /\ DyLeq(DyOfInt(EtaC),
                   DyAdd(ret.dyadic, DyHalfTimes(DyOfInt(MaxTrust), Iterations - 1)))
    /\ (pc = "loop" /\ MaxTrust >= 0) =>
          /\ DyLeq(low, DyOfInt(EtaC))
          /\ DyLeq(DyOfInt(EtaC), high)
          /\ DyLeq(high, DyAdd(low, DyHalfTimes(DyOfInt(2 * MaxTrust), iteration)))

C9_Witness ==
    /\ IsThresholdReturn /\ Len(agent_states) = 3 /\ MaxTrust = 100 /\ EtaC = 60
    /\ DyLess(DyOfInt(59), ret.dyadic) /\ DyLess(ret.dyadic, DyOfInt(60))
    /\ \E i \in 1..3 : agent_states[i].budget <= budget_config.min_budget

ViabilityAt(eta) == calculate_viability(agent_states, budget_config, eta, None)

\* C10: the value r returned on a non-empty trace satisfies
\* calculate_viability(r) <= 0.5 * calculate_viability(0).
C10_ViabilityHalvedAtResult ==
    (IsThresholdReturn /\ agent_states # <<>>) =>
        RatioLeq(ViabilityAt(ret.dyadic), RatioHalf(ViabilityAt(DyOfInt(0))))

\* C10 as amended: when calculate_viability(0) > 0 the returned r is still
\* below the drop, calculate_viability(r) > 0.5 * calculate_viability(0);
\* the inequality of C10 holds at r only when calculate_viability(0) = 0,
\* and then r = 0.  It is the upper bound of the search that satisfies it.
C10_ResultBelowTheDrop ==
    /\ (IsThresholdReturn /\ agent_states # <<>>) =>
          LET v0 == ViabilityAt(DyOfInt(0))
              vr == ViabilityAt(ret.dyadic)
          IN  /\ v0.num > 0 => ~RatioLeq(vr, RatioHalf(v0))
              /\ v0.num = 0 => (ret.dyadic = DyOfInt(0) /\ RatioLeq(vr, RatioHalf(v0)))
    /\ pc = "loop" => RatioLeq(ViabilityAt(high), target_viability)

C10_Witness ==
    /\ IsThresholdReturn /\ Len(agent_states) = 2
    /\ ViabilityAt(DyOfInt(0)) = Ratio(2, 2)
    /\ ViabilityAt(ret.dyadic) = Ratio(2, 2)
    /\ DyLess(DyOfInt(0), ret.dyadic)

\* C11: get_performance_trajectory returns exactly the keys trust, budget and
\* cost, each mapped to a sequence as long as the trace whose i-th element is
\* the trust, budget or cost of the i-th state added; all three are empty on
\* the empty trace.
C11_TrajectoryMirrorsTrace ==
    call.op = "get_performance_trajectory" =>
        /\ ret.kind = "dict"
        /\ DOMAIN ret.dict = {"trust", "budget", "cost"}
        /\ \A k \in DOMAIN ret.dict : Len(ret.dict[k]) = Len(agent_states)
        /\ \A i \in 1..Len(agent_states) :
              /\ ret.dict.trust[i] = agent_states[i].trust
              /\ ret.dict.budget[i] = agent_states[i].budget
              /\ ret.dict.cost[i] = agent_states[i].cost
        /\ agent_states = <<>> =>
              ret.dict = [trust |-> <<>>, budget |-> <<>>, cost |-> <<>>]

C11_Witness ==
    /\ call.op = "get_performance_trajectory"
    /\ ret.dict.trust = <<100, -40, 60>>
    /\ ret.dict.budget = <<1, 5, 1>>
    /\ ret.dict.cost = <<3, 3, 3>>

\* C12: the trace is append-only.  A step of add_agent_state(s) makes the
\* trace the previous trace followed by s (one longer, every earlier entry at
\* its position), whatever s is; every other step leaves the trace as it was.
C12_TraceIsAppendOnly ==
    [][IF call'.op = "add_agent_state"
       THEN /\ Len(agent_states') = Len(agent_states) + 1
            /\ \A i \in 1..Len(agent_states) : agent_states'[i] = agent_states[i]
            /\ agent_states'[Len(agent_states')] = call'.state
       ELSE agent_states' = agent_states]_vars

\* A state whose trust is below min_trust has been appended after two others.
C12_Witness ==
    /\ call.op = "add_agent_state"
    /\ Len(agent_states) = 3
    /\ agent_states[3] = call.state
    /\ agent_states[1] # agent_states[3] /\ agent_states[2] # agent_states[3]
    /\ call.state.trust < trust_config.min_trust

QueryOperations ==
    {"update_trust", "update_budget", "calculate_viability",
     "calculate_semantic_threshold", "calculate_mutual_information",
     "get_performance_trajectory", "calculate_log_likelihood"}

\* C13: the seven query operations leave the trace, trust_config and
\* budget_config unchanged; add_agent_state is the only operation that changes
\* evaluator state, and it changes only the trace.
C13_OnlyAddChangesState ==
    [][/\ trust_config' = trust_config
       /\ budget_config' = budget_config
       /\ call'.op \in QueryOperations => agent_states' = agent_states
       /\ agent_states' # agent_states => call'.op = "add_agent_state"]_vars

C13_Witness ==
    /\ call.op = "calculate_mutual_information"
    /\ ret.kind = "entropy_mean"
    /\ Len(agent_states) = 1
    /\ Len(call.agent_states) = 2

\* The tokens of s as str.split() defines them: the maximal runs of
\* non-whitespace, given by their first and last positions.
TokenSpans(s) ==
    {span \in (1..Len(s)) \X (1..Len(s)) :
        /\ span[1] <= span[2]
        /\ \A k \in span[1]..span[2] : s[k] # " "
        /\ span[1] = 1 \/ s[span[1] - 1] = " "
        /\ span[2] = Len(s) \/ s[span[2] + 1] = " "}

LogprobOf(m, token, d) == IF token \in DOMAIN m THEN m[token] ELSE d

RECURSIVE SumOverSpans(_, _, _, _)
SumOverSpans(spans, s, m, d) ==
    IF spans = {} THEN 0
    ELSE LET span == CHOOSE x \in spans : TRUE
         IN  LogprobOf(m, SubSeq(s, span[1], span[2]), d)
             + SumOverSpans(spans \ {span}, s, m, d)

\* C14: calculate_log_likelihood(m, s) returns the sum over the
\* whitespace-delimited tokens of s, once per occurrence, of m[token] when the
\* token is a key of m and trust_config.default_logprob otherwise: 0 for a
\* target without tokens, n * default_logprob for n tokens when m is empty.
C14_LogLikelihoodIsTokenSum ==
    call.op = "calculate_log_likelihood" =>
        LET s     == call.target_sequence
            m     == call.token_probs
            d     == trust_config.default_logprob
            spans == TokenSpans(s)
        IN  /\ ret = Returned("float", SumOverSpans(spans, s, m, d))
            /\ spans = {} => ret.float = 0
            /\ DOMAIN m = {} => ret.float = Cardinality(spans) * d

C14_Witness ==
    /\ call.op = "calculate_log_likelihood"
    /\ Cardinality(TokenSpans(call.target_sequence)) = 3
    /\ DOMAIN call.token_probs # {}
    /\ trust_config.default_logprob = -200
    /\ ret.float = -50 - 200 - 50

\* The tokens of s in the order in which they occur.
OrderedSpans(s) ==
    LET spans == TokenSpans(s)
        n == Cardinality(spans)
    IN  CHOOSE seq \in [1..n -> spans] :
            \A i \in 1..n, j \in 1..n : i < j => seq[i][1] < seq[j][1]

\* C15: extract_token_probabilities(response, m, d) returns one
\* (token, logprob) pair per whitespace-delimited token of response, in token
\* order, the logprob being m[token] when present and d otherwise: d for
\* every token when m is empty, and one logprob per distinct token.
C15_OnePairPerToken ==
    call.op = "extract_token_probabilities" =>
        LET r     == call.response
            m     == call.logprobs_dict
            d     == call.default_logprob
            spans == OrderedSpans(r)
            out   == ret.list
        IN  /\ ret.kind = "list"
            /\ Len(out) = Len(spans)
            /\ \A i \in 1..Len(spans) :
                  LET token == SubSeq(r, spans[i][1], spans[i][2])
                  IN  out[i] = <<token, LogprobOf(m, token, d)>>
            /\ DOMAIN m = {} => \A i \in 1..Len(out) : out[i][2] = d
            /\ \A i \in 1..Len(out), j \in 1..Len(out) :
                  out[i][1] = out[j][1] => out[i][2] = out[j][2]

C15_Witness ==
    /\ call.op = "extract_token_probabilities"
    /\ call.default_logprob = -200
    /\ ret.list = << <<(<<"a">>), -50>>, <<(<<"b">>), -200>>, <<(<<"a">>), -50>> >>

\* C16: degenerate input sizes give the neutral value and no error: 0.0 from
\* calculate_kl_divergence on empty or unequal-length inputs, from
\* calculate_correlation on unequal lengths or fewer than 2 samples, from
\* calculate_mutual_information on empty or unequal-length inputs and from
\* calculate_cross_entropy and calculate_perplexity on empty input; an empty
\* sequence from detect_outliers_iqr on fewer than 4 points; (x, x) from
\* calculate_confidence_interval on the single sample x and (0, 0) on none.
C16_DegenerateInputsAreNeutral ==
    /\ (call.op = "calculate_kl_divergence"
          /\ (call.p_logprobs = <<>> \/ call.q_logprobs = <<>>
                \/ Len(call.p_logprobs) # Len(call.q_logprobs)))
          => ret = Float(0)
    /\ (call.op = "calculate_correlation"
          /\ (Len(call.x) # Len(call.y) \/ Len(call.x) < 2 \/ Len(call.y) < 2))
          => ret = Float(0)
    /\ (call.op = "calculate_mutual_information"
          /\ (call.agent_states = <<>> \/ call.environment_states = <<>>
                \/ Len(call.agent_states) # Len(call.environment_states)))
          => ret = Float(0)
    /\ (call.op = "detect_outliers_iqr" /\ Len(call.data) < 4)
          => ret = [kind |-> "list", list |-> <<>>]
    /\ (call.op = "calculate_confidence_interval" /\ Len(call.data) = 1)
          => ret = [kind |-> "pair", pair |-> <<call.data[1], call.data[1]>>]
    /\ (call.op = "calculate_confidence_interval" /\ Len(call.data) = 0)
          => ret = [kind |-> "pair", pair |-> <<0, 0>>]
    /\ (call.op \in {"calculate_cross_entropy", "calculate_perplexity"}
          /\ call.token_logprobs = <<>>)
          => ret = Float(0)
    /\ ret.kind # "raise"

C16_Witness ==
    /\ call.op = "calculate_confidence_interval"
    /\ call.data = <<1>>
    /\ ret.pair = <<1, 1>>

\* The names passed with the interventions applied to provider p, in the order
\* of application.
AppliedNames(p) == [k \in 1..Len(providers[p].wrappers) |-> providers[p].wrappers[k].name]

\* C17: after interventions I1..Ik have been applied to a provider, every
\* get_context call on it returns metadata whose 'interventions' list has
\* exactly k entries naming I1..Ik in application order, however many
\* get_context calls were made before, for providers returning a fresh or a
\* shared mapping and any intervention function; applying returns the
\* provider passed in and leaves the other providers as they were.
C17_InterventionsListedOncePerApplication ==
    /\ [](call.op = "get_context" =>
            LET listed == get_interventions(ret.metadata)
            IN  /\ Len(listed) = Len(providers[call.provider].wrappers)
                /\ [k \in 1..Len(listed) |-> listed[k].name] = AppliedNames(call.provider))
    /\ [](call.op \in {"apply_intervention", "compose_interventions"} =>
            ret = [kind |-> "provider", provider |-> call.provider])
    /\ [][call'.op \in {"apply_intervention", "compose_interventions"} =>
            \A q \in 1..Len(providers) : q # call'.provider => providers'[q] = providers[q]]_vars

\* C18: a budget_threshold passed to calculate_viability is the value the
\* budgets are compared against, whatever it is (0 with a non-zero min_budget
\* included); min_budget is used only when none is passed.
C18_PassedBudgetThresholdIsUsed ==
    (call.op = "calculate_viability" /\ agent_states # <<>>) =>
        LET used == IF call.budget_threshold = None THEN budget_config.min_budget
                    ELSE call.budget_threshold.v
        IN  ret = Returned("ratio",
                     Ratio(Cardinality(Satisfying(call.trust_threshold, used)),
                           Len(agent_states)))

ProbeThresholds ==
    {DyOfInt(e) : e \in {-100, -40, 0, 59, 60, 100, 150}} \cup {DyHalf(DyOfInt(119))}

\* C19: for a fixed budget threshold viability is non-increasing in the trust
\* threshold, and it is 0 at every trust threshold >= the maximum trust of
\* the trace.
C19_ViabilityNonIncreasing ==
    (call.op = "calculate_viability" /\ agent_states # <<>>) =>
        LET eta  == DyOfInt(call.trust_threshold)
            V(e) == calculate_viability(agent_states, budget_config, e,
                                        call.budget_threshold)
        IN  /\ ret.kind = "ratio"
            /\ \A e \in ProbeThresholds :
                  /\ DyLeq(e, eta) => RatioLeq(ret.ratio, V(e))
                  /\ DyLeq(eta, e) => RatioLeq(V(e), ret.ratio)
                  /\ DyLeq(DyOfInt(MaxTrust), e) => V(e).num = 0
            /\ call.trust_threshold >= MaxTrust => ret.ratio.num = 0

C19_Witness ==
    /\ call.op = "calculate_viability" /\ Len(agent_states) = 3
    /\ call.trust_threshold = 60 /\ ret.ratio = Ratio(2, 3)
    /\ MaxTrust = 100
    /\ calculate_viability(agent_states, budget_config, DyOfInt(0),
                           call.budget_threshold) = Ratio(3, 3)
    /\ calculate_viability(agent_states, budget_config, DyOfInt(100),
                           call.budget_threshold) = Ratio(0, 3)

\* C20: calculate_semantic_threshold always terminates.  On a non-empty trace
\* it makes exactly 50 iterations, one viability scan before the loop and one
\* in each iteration (51 in all), whatever the trace holds: it leaves the loop
\* only after the 50th iteration, and it does leave it.  On an empty trace it
\* returns at once, without an iteration or a scan.
C20_ExactlyFiftyIterations ==
    /\ [](pc = "loop" =>
            /\ agent_states # <<>>
            /\ iteration \in 0..Iterations
            /\ viability_scans = iteration + 1)
    /\ [][(pc = "loop" /\ pc' = "loop") => iteration' = iteration + 1]_vars
    /\ [][(pc = "loop" /\ pc' # "loop") =>
            /\ iteration = Iterations
            /\ viability_scans = Iterations + 1
            /\ ret'.kind = "dyadic"]_vars
    /\ [][(pc = "idle" /\ call'.op = "calculate_semantic_threshold"
              /\ agent_states = <<>>) =>
            /\ pc' = "idle"
            /\ ret'.kind = "dyadic"
            /\ iteration' = 0 /\ viability_scans' = 0]_vars
    /\ [][(pc = "idle" /\ pc' = "loop") => agent_states # <<>>]_vars
    /\ (pc = "loop") ~> (pc = "idle" /\ ret.kind = "dyadic")

C20_Witness ==
    /\ pc = "loop" /\ iteration = Iterations /\ viability_scans = 51
    /\ Len(agent_states) = 3
    /\ low # DyOfInt(0) /\ high # DyOfInt(MaxTrust)

\* The step the running search is about to take.
MidOfSearch == midpoint(low, high)

\* An iteration moves exactly one bound to the midpoint: the upper one when
\* the viability at the midpoint is at most the target, the lower otherwise.
OneBoundMovesToMid ==
    Iterate_calculate_semantic_threshold =>
        IF RatioLeq(ViabilityAt(MidOfSearch), target_viability)
        THEN high' = MidOfSearch /\ low' = low
        ELSE low' = MidOfSearch /\ high' = high

\* C21: for every non-empty trace, of trust values of any sign, the search
\* stays inside [0, max trust]: 0 <= low <= mid <= high <= max trust at
\* every iteration, each step moves exactly one bound to mid, and the
\* returned value is the final lower bound and lies in [0, max trust].
C21_SearchStaysInRange ==
    /\ [](pc = "loop" =>
            /\ DyLeq(DyOfInt(0), low)
            /\ DyLeq(low, MidOfSearch)
            /\ DyLeq(MidOfSearch, high)
            /\ DyLeq(high, DyOfInt(MaxTrust)))
    /\ []((IsThresholdReturn /\ agent_states # <<>>) =>
            /\ ret.kind = "dyadic"
            /\ DyLeq(DyOfInt(0), ret.dyadic)
            /\ DyLeq(ret.dyadic, DyOfInt(MaxTrust)))
    /\ [][OneBoundMovesToMid]_vars
    /\ [][Return_calculate_semantic_threshold => ret'.dyadic = low]_vars

\* C21 as amended: the range holds on the traces whose maximum trust M is
\* not negative.  When M < 0 the search starts with its bounds inverted,
\* low = 0.0 > high = M: low stays 0.0, every step moves high to the
\* midpoint, so M <= high <= mid < 0 = low, and 0.0 is returned.  In both
\* cases a step moves exactly one bound to mid and the final lower bound is
\* what is returned.
C21_SearchStaysInRangeWhenMaxNonNegative ==
    /\ []((pc = "loop" /\ MaxTrust >= 0) =>
            /\ DyLeq(DyOfInt(0), low)
            /\ DyLeq(low, MidOfSearch)
            /\ DyLeq(MidOfSearch, high)
            /\ DyLeq(high, DyOfInt(MaxTrust)))
    /\ []((pc = "loop" /\ MaxTrust < 0) =>
            /\ low = DyOfInt(0)
            /\ DyLeq(DyOfInt(MaxTrust), high)
            /\ DyLeq(high, MidOfSearch)
            /\ DyLess(MidOfSearch, low)
            /\ RatioLeq(ViabilityAt(MidOfSearch), target_viability))
    /\ []((IsThresholdReturn /\ agent_states # <<>>) =>
            /\ ret.kind = "dyadic"
            /\ DyLeq(DyOfInt(0), ret.dyadic)
            /\ MaxTrust >= 0 => DyLeq(ret.dyadic, DyOfInt(MaxTrust))
            /\ MaxTrust < 0 => ret.dyadic = DyOfInt(0))
    /\ [][OneBoundMovesToMid]_vars
    /\ [][Return_calculate_semantic_threshold => ret'.dyadic = low]_vars

\* The search has run to its last iteration on a trace of mixed signs and
\* both of its bounds have moved.
C21_Witness ==
    /\ pc = "loop" /\ iteration = Iterations
    /\ MaxTrust = 100
    /\ \E i \in 1..Len(agent_states) : agent_states[i].trust < 0
    /\ DyLess(DyOfInt(0), low) /\ DyLess(high, DyOfInt(MaxTrust))

\* C22: in a run whose every appended state is built from the evaluator's
\* own updates (update_trust, then update_budget, then add_agent_state),
\* with min_trust <= max_trust and any starting trust and budget, every
\* state of the trace has min_trust <= trust <= max_trust and
\* budget >= min_budget, in every reachable state of the run.
C22_RunStaysInBounds ==
    trust_config.min_trust <= trust_config.max_trust =>
        \A i \in 1..Len(agent_states) :
            /\ trust_config.min_trust <= agent_states[i].trust
            /\ agent_states[i].trust <= trust_config.max_trust
            /\ agent_states[i].budget >= budget_config.min_budget

\* A run that started above max_trust and below min_budget has recorded
\* three states: the first clamped at max_trust, a later one lower, and one
\* at the budget floor.
C22_Witness ==
    /\ trust_config.min_trust < trust_config.max_trust
    /\ Len(agent_states) = 3
    /\ agent_states[1].trust = trust_config.max_trust
    /\ agent_states[3].trust < trust_config.max_trust
    /\ \E i \in 1..3 : agent_states[i].budget = budget_config.min_budget
    /\ \E i \in 1..3 : agent_states[i].budget > budget_config.min_budget

\* C23: every TrustConfig held by an evaluator has min_trust <= max_trust (a
\* configuration with min_trust > max_trust cannot be constructed or
\* installed), so no update_trust call runs with inverted bounds and every
\* trust it returns lies in [min_trust, max_trust].
C23_BoundsNeverInverted ==
    /\ trust_config.min_trust <= trust_config.max_trust
    /\ \A i \in 1..Len(agent_states) :
          /\ trust_config.min_trust <= agent_states[i].trust
          /\ agent_states[i].trust <= trust_config.max_trust

\* The orderings of a trace.
Orderings(states) ==
    LET n == Len(states)
    IN  {[i \in 1..n |-> states[p[i]]] :
            p \in {q \in [1..n -> 1..n] : \A i, j \in 1..n : i # j => q[i] # q[j]}}

StateLeq(a, b) ==
    \/ a.trust < b.trust
    \/ a.trust = b.trust /\ a.budget <= b.budget

\* The ordering of a trace by trust, then budget: the same sequence for
\* every two traces that are permutations of each other.
Canonical(states) ==
    CHOOSE t \in Orderings(states) :
        \A i \in 1..(Len(t) - 1) : StateLeq(t[i], t[i + 1])

\* C25: calculate_viability and calculate_semantic_threshold depend only on
\* the multiset of (trust, budget) pairs of the trace: every permutation of
\* the trace gives the same viability for every pair of thresholds, and the
\* same semantic threshold (each equals the value on the sorted trace).
C25_OrderOfTraceIsIrrelevant ==
    /\ (call.op = "calculate_viability" /\ ret.kind = "ratio") =>
          \A t \in Orderings(agent_states) :
              calculate_viability(t, budget_config, DyOfInt(call.trust_threshold),
                                  call.budget_threshold) = ret.ratio
    /\ IsThresholdReturn =>
          ret = calculate_semantic_threshold(Canonical(agent_states), budget_config)

\* A threshold above zero has been returned on a trace of three different
\* states that is not in sorted order.
C25_Witness ==
    /\ IsThresholdReturn
    /\ Len(agent_states) = 3
    /\ Cardinality({agent_states[i] : i \in 1..3}) = 3
    /\ agent_states # Canonical(agent_states)
    /\ agent_states[1].trust > agent_states[3].trust
    /\ DyLess(DyOfInt(0), ret.dyadic)

\* The viability of the trace for a plain trust threshold and an optional
\* budget threshold, as calculate_viability returns it.
ViabilityOf(states, eta, bt) ==
    calculate_viability(states, budget_config, DyOfInt(eta), bt)

\* The budget threshold a caller names: the one passed, min_budget if none.
NamedBudgetThreshold(bt) == IF bt.is_none THEN budget_config.min_budget ELSE bt.v

\* The number of states calculate_viability counts as viable.
ViableCount(states, eta, bt) == ViabilityOf(states, eta, bt).num

\* C26: for fixed thresholds, appending a state that satisfies the
\* viability predicate (trust > trust threshold and budget > budget
\* threshold) never decreases calculate_viability, appending one that does
\* not never increases it, and the count of viable states never decreases
\* as the trace grows.
C26_AppendIsMonotone ==
    [][\A eta \in TrustThresholds, bt \in BudgetThresholds :
          agent_states' # agent_states =>
              LET state == agent_states'[Len(agent_states')]
                  satisfies == /\ state.trust > eta
                               /\ state.budget > NamedBudgetThreshold(bt)
                  before == ViabilityOf(agent_states, eta, bt)
                  after == ViabilityOf(agent_states', eta, bt)
              IN  /\ satisfies => RatioLeq(before, after)
                  /\ ~satisfies => RatioLeq(after, before)
                  /\ ViableCount(agent_states, eta, bt)
                         <= ViableCount(agent_states', eta, bt)]_vars

\* C27: a state whose budget equals min_budget, which is what update_budget
\* returns whenever the updated budget is at or below the floor, is never
\* counted viable by calculate_viability called without a budget_threshold,
\* whatever the trust threshold and the state's trust.
C27_StateAtFloorIsNotViable ==
    /\ (call.op = "calculate_viability" /\ call.budget_threshold = None) =>
          ret.ratio.num <=
              Cardinality({i \in 1..Len(agent_states) :
                              agent_states[i].budget # budget_config.min_budget})
    /\ \A eta \in TrustThresholds :
          \A i \in Viable(agent_states, DyOfInt(eta), budget_config.min_budget) :
              agent_states[i].budget # budget_config.min_budget
    /\ call.op = "update_budget" =>
          (budget_update_function(budget_config.update_function, call.current_budget,
                                  call.cost, call.trust) <= budget_config.min_budget
              => ret.float = budget_config.min_budget)

\* Viability without a budget threshold has been returned for a trace with
\* a state at a non-zero floor whose trust is above the threshold, and
\* another state that is counted.
C27_Witness ==
    /\ call.op = "calculate_viability" /\ call.budget_threshold = None
    /\ budget_config.min_budget # 0
    /\ Len(agent_states) = 3
    /\ \E i \in 1..3 :
          /\ agent_states[i].budget = budget_config.min_budget
          /\ agent_states[i].trust > call.trust_threshold
    /\ ret.ratio.num = 1

\* C28: calculate_log_likelihood(m, s) equals the sum of the logprobs in
\* extract_token_probabilities(s, m, default_logprob) taken with
\* default_logprob = trust_config.default_logprob.
C28_LogLikelihoodSumsExtractedLogprobs ==
    call.op = "calculate_log_likelihood" =>
        ret = Returned("float",
                       SeqSum(logprobs_of(
                           extract_token_probabilities(call.target_sequence,
                                                       call.token_probs,
                                                       trust_config.default_logprob))))

\* A log-likelihood has been returned, under a default_logprob other than
\* -10.0, for a sequence with a token in the map and a token missing from it.
C28_Witness ==
    /\ call.op = "calculate_log_likelihood"
    /\ trust_config.default_logprob # DefaultLogprob
    /\ LET pairs == extract_token_probabilities(call.target_sequence, call.token_probs,
                                                trust_config.default_logprob)
       IN  /\ Len(pairs) = 3
           /\ \E i \in 1..3 : pairs[i][1] \in DOMAIN call.token_probs
           /\ \E i \in 1..3 : pairs[i][1] \notin DOMAIN call.token_probs
    /\ ret.float = 2 * (-50) + trust_config.default_logprob

\* The positions in the current run's calls of the calls made for a task.
CallsFor(task) == {p \in 1..Len(collaborators) : collaborators[p].task = task}

PositionsOf(op, task) == {p \in CallsFor(task) : collaborators[p].op = op}

\* C24: in run_evaluation, for every task an intervention's revert is
\* called only if that intervention's apply was called for the same task;
\* the applies happen in list order before the agent responds, and the
\* reverts in reverse list order after the response has been evaluated and
\* recorded.
C24_RevertOnlyAfterApply ==
    \A task \in 1..MaxTasks :
        /\ \A r \in PositionsOf("revert", task) :
              \E a \in PositionsOf("apply", task) :
                  /\ a < r
                  /\ collaborators[a].intervention = collaborators[r].intervention
        /\ \A a \in PositionsOf("apply", task) :
              /\ \A b \in PositionsOf("apply", task) :
                    a < b => collaborators[a].intervention < collaborators[b].intervention
              /\ \A g \in PositionsOf("generate_response", task) : a < g
        /\ \A r \in PositionsOf("revert", task) :
              /\ \A q \in PositionsOf("revert", task) :
                    r < q => collaborators[r].intervention > collaborators[q].intervention
              /\ \E e \in PositionsOf("evaluate", task) : e < r
              /\ \E w \in PositionsOf("record", task) : w < r

\* C29: every call of run_evaluation, a second or later call on the same
\* runner included, returns a report whose summary.total_tasks is the
\* number of tasks generated in that call, with len(results) =
\* len(agent_states) = total_tasks, the i-th result and agent state
\* belonging to the i-th generated task, successful_tasks <= total_tasks,
\* and success_rate = successful_tasks / total_tasks (0 without tasks).
C29_ReportCoversTheCall ==
    (call.op = "run_evaluation" /\ ret.kind = "dict") =>
        LET report == ret.dict
            n == Len(run.tasks)
        IN  /\ report.summary.total_tasks = n
            /\ Len(report.results) = n
            /\ Len(report.agent_states) = n
            /\ \A i \in 1..n :
                  /\ report.results[i].task_id = run.tasks[i].task_id
                  /\ report.agent_states[i].query = run.tasks[i].query
            /\ report.summary.successful_tasks <= report.summary.total_tasks
            /\ report.summary.success_rate =
                   IF n > 0 THEN Ratio(report.summary.successful_tasks, n) ELSE RatioZero

CleanupCalls == {p \in 1..Len(collaborators) : collaborators[p].op = "cleanup"}

\* C30: whenever run_evaluation has called environment.initialize(),
\* environment.cleanup() is called exactly once before run_evaluation
\* finishes, and never before the last task has been processed, also in
\* the runs in which a context, intervention, agent or task-evaluator call
\* fails for some task.
C30_CleanupFollowsInitialize ==
    /\ run.pc \in {"returned", "raised"} =>
          /\ Cardinality(CleanupCalls) = 1
          /\ \A p \in CleanupCalls : p = Len(collaborators)
    /\ run.pc = "loop" => CleanupCalls = {}

====
